---- MODULE Spec2Model ----
(***************************************************************************)
(* Model of audio_search.py: the source selector (AudioSearch.__init__),   *)
(* the concurrent dispatch-and-collect protocol (AudioSearch.search_all,   *)
(* AudioSearch._search_scraper), the resource release (close_all) and the  *)
(* control flow of main() around them.                                     *)
(*                                                                         *)
(* Runtime: the file needs Python >= 3.12 (line 477 nests a backslash in   *)
(* an f-string expression), so asyncio.wait_for is "async with timeout():  *)
(* return await fut": on expiry the awaiting task is cancelled, the        *)
(* CancelledError is thrown at its innermost await and is turned into      *)
(* TimeoutError when it leaves the wait_for.  CancelledError,              *)
(* KeyboardInterrupt and SystemExit derive from BaseException, not from    *)
(* Exception; asyncio.TimeoutError is the builtin TimeoutError, a subclass *)
(* of Exception.                                                           *)
(*                                                                         *)
(* Time: clock counts the time units since the current phase (one          *)
(* search_all call, or the finally clause of main) was entered.            *)
(* Synchronous code takes no time; time passes only while the coordinating *)
(* task is suspended in an await.                                          *)
(*                                                                         *)
(* Adapters: a call of scraper.search is a coroutine that yields to the    *)
(* event loop while it waits, so that a wait_for can expire and cancel it; *)
(* it returns, raises an Exception, or never finishes.                     *)
(***************************************************************************)
EXTENDS Integers, Sequences, FiniteSets, TLC

VARIABLES
    args,        \* parsed command line: [include, exclude, terms]
    pc,          \* position of main(): start, loop, dispatch, collect, post, raised, cleanup, done, hung
    built,       \* TRUE once AudioSearch(...) has been constructed
    scrapers,    \* self.scrapers: names of the active adapters, in order
    warnings,    \* tokens reported as "Unrecognized site"
    termIdx,     \* index in args.terms of the search term being processed
    tasks,       \* search_all's list of (name, task) with each task's behaviour and state; once
                 \* search_all is left by an exception, the tasks still running in the event loop
    cIdx,        \* index in tasks of the task the collection loop awaits / dispatch loop creates
    results,     \* search_all's local dict, a function from source names to listing sequences
    returned,    \* the value search_all returned for the current term, or NoMap
    clock,       \* time units elapsed
    searchCalls, \* number of scraper.search invocations made so far
    pending,     \* the exception in flight in main() when the finally clause runs
    interrupt,   \* the cancellation that arrived during collection, or NoInterrupt
    cleanup,     \* the finally clause: [entered, closers, outerLive, idx, failed, overran, raised]
    outcome,     \* how the run ended
    call         \* a direct call of one of the pure functions of the module: [fn, arg, ret]

vars == <<args, pc, built, scrapers, warnings, termIdx, tasks, cIdx, results,
          returned, clock, searchCalls, pending, interrupt, cleanup, outcome, call>>

----------------------------------------------------------------------------
(* Bounds of the model *)

MaxTokens == 2      \* longest include / exclude list
MaxTerms == 2       \* most search terms on one command line

(* Program constants *)

SearchTimeout == 60     \* asyncio.wait_for(task, timeout=60.0)
CloseTimeout == 5       \* asyncio.wait_for(scraper.close(), timeout=5.0)
CleanupTimeout == 10    \* asyncio.wait_for(searcher.close_all(), timeout=10.0)

Max(a, b) == IF a >= b THEN a ELSE b
Min(a, b) == IF a <= b THEN a ELSE b

----------------------------------------------------------------------------
(* Source registry and selector: AudioSearch.__init__ *)

\* all_scrapers, in dict insertion order; each adapter is identified by its name
Registry == <<"Blocket", "Tradera", "Facebook Marketplace", "HifiTorget">>

\* the site tokens given with -i / -e in the runs of main()
Tokens == {"facebook", "foo"}

\* the site tokens given with -i / -e when only the selector is run
SelTokens == {"facebook", "Facebook", "Facebook Marketplace", "Tradera", "blocket", "foo"}

\* str.lower() on the tokens and the registry names
Lower(s) ==
    CASE s = "Blocket" -> "blocket"
      [] s = "Tradera" -> "tradera"
      [] s = "TRADERA" -> "tradera"
      [] s = "Facebook Marketplace" -> "facebook marketplace"
      [] s = "Facebook" -> "facebook"
      [] s = "HifiTorget" -> "hifitorget"
      [] OTHER -> s

\* str.split() on a lowercased string: its whitespace-delimited words
Split(s) ==
    CASE s = "facebook marketplace" -> {"facebook", "marketplace"}
      [] OTHER -> {s}

match_site_name(user_input, scraper_name) ==
    LET user_lower == Lower(user_input)
        scraper_lower == Lower(scraper_name)
    IN  user_lower = scraper_lower \/ user_lower \in Split(scraper_lower)

InSeq(x, s) == \E i \in 1..Len(s) : s[i] = x

\* the first registry index from i on whose name matches site and is not in skip,
\* or 0 when the inner for loop ends without break
RECURSIVE FirstMatch(_, _, _)
FirstMatch(i, site, skip) ==
    IF i > Len(Registry) THEN 0
    ELSE IF match_site_name(site, Registry[i]) /\ ~InSeq(Registry[i], skip) THEN i
    ELSE FirstMatch(i + 1, site, skip)

\* the include branch without "and scraper not in self.scrapers"
IncludeOneNoDedup(site, acc) ==
    LET i == FirstMatch(1, site, <<>>)
    IN  IF i # 0
        THEN [acc EXCEPT !.scrapers = Append(@, Registry[i])]
        ELSE [acc EXCEPT !.warnings = Append(@, site)]

\* the include branch without the warning for an unmatched token
IncludeOneSilent(site, acc) ==
    LET i == FirstMatch(1, site, acc.scrapers)
    IN  IF i # 0
        THEN [acc EXCEPT !.scrapers = Append(@, Registry[i])]
        ELSE acc

\* include branch: one token; acc = [scrapers, warnings]
IncludeOne(site, acc) ==
    LET i == FirstMatch(1, site, acc.scrapers)
    IN  IF i # 0
        THEN [acc EXCEPT !.scrapers = Append(@, Registry[i])]
        ELSE [acc EXCEPT !.warnings = Append(@, site)]

RECURSIVE IncludeAll(_, _)
IncludeAll(sites, acc) ==
    IF sites = <<>> THEN acc
    ELSE IncludeAll(Tail(sites), IncludeOne(Head(sites), acc))

\* the exclude branch comparing the token with the full name only
ExcludeOneExactOnly(site, acc) ==
    IF \E i \in 1..Len(Registry) : Lower(site) = Lower(Registry[i])
    THEN [acc EXCEPT !.excluded =
              @ \cup {Registry[CHOOSE i \in 1..Len(Registry) : Lower(site) = Lower(Registry[i])]}]
    ELSE [acc EXCEPT !.warnings = Append(@, site)]

\* exclude branch: one token; acc = [excluded, warnings]
ExcludeOne(site, acc) ==
    LET i == FirstMatch(1, site, <<>>)
    IN  IF i # 0
        THEN [acc EXCEPT !.excluded = @ \cup {Registry[i]}]
        ELSE [acc EXCEPT !.warnings = Append(@, site)]

RECURSIVE ExcludeAll(_, _)
ExcludeAll(sites, acc) ==
    IF sites = <<>> THEN acc
    ELSE ExcludeAll(Tail(sites), ExcludeOne(Head(sites), acc))

RECURSIVE Without(_, _)
Without(s, X) ==
    IF s = <<>> THEN <<>>
    ELSE IF Head(s) \in X THEN Without(Tail(s), X)
    ELSE <<Head(s)>> \o Without(Tail(s), X)

\* AudioSearch.__init__: [scrapers, warnings] for the given lists (an empty list is falsy)
AudioSearchInit(include_sites, exclude_sites) ==
    IF include_sites # <<>>
    THEN IncludeAll(include_sites, [scrapers |-> <<>>, warnings |-> <<>>])
    ELSE IF exclude_sites # <<>>
    THEN LET e == ExcludeAll(exclude_sites, [excluded |-> {}, warnings |-> <<>>])
         IN  [scrapers |-> Without(Registry, e.excluded), warnings |-> e.warnings]
    ELSE [scrapers |-> <<"HifiTorget">>, warnings |-> <<>>]

\* self.browser_scrapers, by adapter name
BrowserScrapers == {"Facebook Marketplace", "Tradera", "Blocket"}

----------------------------------------------------------------------------
(* Exceptions *)

\* isinstance(e, Exception): TimeoutError and ordinary failures, not the
\* BaseException-only CancelledError, KeyboardInterrupt, SystemExit
IsException(exc) == exc \in {"Exception", "TimeoutError"}

Ok(value) == [tag |-> "ok", exc |-> "none", value |-> value]
Raised(exc) == [tag |-> "exc", exc |-> exc, value |-> <<>>]

----------------------------------------------------------------------------
(* Queries and adapters *)

Queries == {"amp", "  "}

\* str.strip()
Strip(q) == IF q = "  " THEN "" ELSE q

\* the guard without the strip(): "not query" alone
IsBlankNoStrip(q) == q = ""

\* not query or not query.strip()
IsBlank(q) == q = "" \/ Strip(q) = ""

\* the n listings adapter `name` produces, distinct from every other adapter's
Listings(name, n) == [i \in 1..n |-> [source |-> name, id |-> i]]

\* what one call of scraper.search may do: return n listings after dur time
\* units, raise an Exception after dur (having built n listings), or never finish
Behaviours ==
    { [kind |-> "return", dur |-> 30, n |-> 1],
      [kind |-> "return", dur |-> 70, n |-> 2],
      [kind |-> "raise", dur |-> 0, n |-> 1],
      [kind |-> "raise", dur |-> 70, n |-> 1],
      [kind |-> "stall", dur |-> 0, n |-> 0] }

NoBeh == [kind |-> "none", dur |-> 0, n |-> 0]

\* await scraper.search(query), once it ends
ScraperSearch(name, beh) ==
    IF beh.kind = "return" THEN Ok(Listings(name, beh.n)) ELSE Raised("Exception")

\* _search_scraper whose handler returns the listings built so far, not []
search_scraper_partial(name, query, beh) ==
    IF IsBlank(query) THEN Ok(<<>>) ELSE Ok(Listings(name, beh.n))

\* AudioSearch._search_scraper: the result of the adapter's task
search_scraper(name, query, beh) ==
    IF IsBlank(query) THEN Ok(<<>>)
    ELSE LET r == ScraperSearch(name, beh)
         IN  IF r.tag = "ok" THEN r
             ELSE IF r.exc = "KeyboardInterrupt" THEN r
             ELSE IF IsException(r.exc) THEN Ok(<<>>)
             ELSE r

\* the try statement with a TimeoutError branch that records nothing
AwaitEntryNoTimeoutEntry(out) ==
    IF out.tag = "ok" THEN [absorbed |-> TRUE, set |-> TRUE, entry |-> out.value]
    ELSE IF out.exc = "TimeoutError" THEN [absorbed |-> TRUE, set |-> FALSE, entry |-> <<>>]
    ELSE IF IsException(out.exc) THEN [absorbed |-> TRUE, set |-> TRUE, entry |-> <<>>]
    ELSE [absorbed |-> FALSE, set |-> FALSE, entry |-> <<>>]

\* the try statement with a bare "except:" in place of "except Exception"
AwaitEntryBareExcept(out) ==
    IF out.tag = "ok" THEN [absorbed |-> TRUE, set |-> TRUE, entry |-> out.value]
    ELSE [absorbed |-> TRUE, set |-> TRUE, entry |-> <<>>]

\* search_all, lines 96-111: what the try statement around
\* "await asyncio.wait_for(task, timeout=60.0)" does with the await's outcome
AwaitEntry(out) ==
    IF out.tag = "ok" THEN [absorbed |-> TRUE, set |-> TRUE, entry |-> out.value]
    ELSE IF out.exc = "TimeoutError" THEN [absorbed |-> TRUE, set |-> TRUE, entry |-> <<>>]
    ELSE IF IsException(out.exc) THEN [absorbed |-> TRUE, set |-> TRUE, entry |-> <<>>]
    ELSE [absorbed |-> FALSE, set |-> FALSE, entry |-> <<>>]

\* main, lines 475-489: the exception in flight after the handlers of both try
\* statements, for an exception leaving search_all
MainHandle(exc) ==
    IF IsException(exc) THEN "none"
    ELSE IF exc = "KeyboardInterrupt" THEN "InterruptExit"
    ELSE exc

\* main without the check of line 456
ConfigConflictUnchecked(a) == FALSE

\* main, line 456
ConfigConflict(a) == a.include # <<>> /\ a.exclude # <<>>

\* a finally clause that awaits close_all without the try statement
MainCleanupCatchesNothing(exc) == FALSE

\* main, lines 492-497: the handlers around the cleanup await
MainCleanupCatches(exc) == exc = "TimeoutError" \/ IsException(exc)

\* close_all, lines 146-154: the handler around "await wait_for(scraper.close())"
\* after the TimeoutError branch
CloseAllCatches(exc) == IsException(exc)

\* how the process ends, given the exception in flight when main() is left
\* (asyncio.run turns the CancelledError of an interrupted main task into KeyboardInterrupt)
RunOutcome(p) ==
    CASE p = "none" -> "success"
      [] p = "InterruptExit" -> "interrupted"
      [] p = "CancelledError" -> "cancelled"
      [] p = "FatalExit" -> "fatal"
      [] OTHER -> "cleanup_error"

----------------------------------------------------------------------------
(* State *)

EmptyMap == [x \in {} |-> <<>>]
Put(m, k, v) == [x \in DOMAIN m \cup {k} |-> IF x = k THEN v ELSE m[x]]

NoMap == [has |-> FALSE, map |-> EmptyMap]
NoInterrupt == [has |-> FALSE, kind |-> "none"]
NoCleanup == [entered |-> FALSE, closers |-> {}, outerLive |-> FALSE, idx |-> 0,
              failed |-> FALSE, overran |-> FALSE, raised |-> "none"]

Names(s) == {s[i] : i \in 1..Len(s)}

NoCall == [fn |-> "none", arg |-> <<>>, ret |-> <<>>]

TokenLists == UNION {[1..n -> Tokens] : n \in 0..MaxTokens}
TermLists == UNION {[1..n -> Queries] : n \in 1..MaxTerms}

\* the process before main() has run, for a command line among Args; Calls
\* holds NoCall, or the direct calls of a pure function to examine instead
InitWith(Args, Calls) ==
    /\ args \in Args
    /\ call \in Calls
    /\ pc = "start"
    /\ built = FALSE
    /\ scrapers = <<>>
    /\ warnings = <<>>
    /\ termIdx = 1
    /\ tasks = <<>>
    /\ cIdx = 0
    /\ results = EmptyMap
    /\ returned = NoMap
    /\ clock = 0
    /\ searchCalls = 0
    /\ pending = "none"
    /\ interrupt = NoInterrupt
    /\ cleanup = NoCleanup
    /\ outcome = "running"

Init == InitWith([include : TokenLists, exclude : TokenLists, terms : TermLists], {NoCall})

----------------------------------------------------------------------------
(* main(): validation and construction, lines 453-462 *)

ParseArgs ==
    /\ pc = "start"
    /\ IF ConfigConflict(args)
       THEN /\ pc' = "done"
            /\ outcome' = "config_error"
            /\ UNCHANGED <<built, scrapers, warnings>>
       ELSE LET s == AudioSearchInit(args.include, args.exclude)
            IN  /\ built' = TRUE
                /\ scrapers' = s.scrapers
                /\ warnings' = s.warnings
                /\ pc' = "loop"
                /\ UNCHANGED outcome
    /\ UNCHANGED <<call, args, termIdx, tasks, cIdx, results, returned, clock,
                   searchCalls, pending, interrupt, cleanup>>

\* hasattr(scraper, 'close') over the active adapters: the adapters that hold a
\* browser have a close(); HifiTorgetScraper defines none, and whether it
\* inherits one from BaseScraper is not fixed by the source
CloserSets ==
    { Names(scrapers) \cap BrowserScrapers,
      Names(scrapers) \cap (BrowserScrapers \cup {"HifiTorget"}) }

\* the finally clause is entered and the cleanup deadline starts
EnterCleanup(closers) ==
    [entered |-> TRUE, closers |-> closers, outerLive |-> TRUE, idx |-> 1,
     failed |-> FALSE, overran |-> FALSE, raised |-> "none"]

----------------------------------------------------------------------------
(* AudioSearch.search_all *)

\* lines 76-85 of search_all, called from main line 468
SearchAll ==
    /\ pc = "loop"
    /\ termIdx <= Len(args.terms)
    /\ clock' = 0
    /\ results' = EmptyMap
    /\ tasks' = <<>>
    /\ IF IsBlank(args.terms[termIdx]) \/ scrapers = <<>>
       THEN /\ returned' = [has |-> TRUE, map |-> EmptyMap]
            /\ pc' = "post"
            /\ cIdx' = 0
       ELSE /\ returned' = NoMap
            /\ pc' = "dispatch"
            /\ cIdx' = 1
    /\ UNCHANGED <<call, args, built, scrapers, warnings, termIdx, searchCalls,
                   pending, interrupt, cleanup, outcome>>

\* a loop that awaits each task right after creating it
DispatchSequential ==
    /\ pc = "dispatch"
    /\ \E beh \in Behaviours :
         tasks' = Append(tasks, [name |-> scrapers[cIdx],
                                 query |-> Strip(args.terms[termIdx]),
                                 at |-> clock, beh |-> beh, st |-> "created"])
    /\ pc' = "collect"
    /\ UNCHANGED <<call, args, built, scrapers, warnings, termIdx, cIdx, results, returned,
                   clock, searchCalls, pending, interrupt, cleanup, outcome>>

\* lines 89-92: asyncio.create_task(self._search_scraper(scraper, query.strip()))
Dispatch ==
    /\ pc = "dispatch"
    /\ \E beh \in Behaviours :
         tasks' = Append(tasks, [name |-> scrapers[cIdx],
                                 query |-> Strip(args.terms[termIdx]),
                                 at |-> clock, beh |-> beh, st |-> "created"])
    /\ IF cIdx = Len(scrapers)
       THEN pc' = "collect" /\ cIdx' = 1
       ELSE pc' = "dispatch" /\ cIdx' = cIdx + 1
    /\ UNCHANGED <<call, args, built, scrapers, warnings, termIdx, results, returned,
                   clock, searchCalls, pending, interrupt, cleanup, outcome>>

\* the created tasks get their first step when the coordinator first suspends
Started(ts) == [i \in 1..Len(ts) |->
                  IF ts[i].st = "created" THEN [ts[i] EXCEPT !.st = "running"] ELSE ts[i]]

NewCalls(ts) == Cardinality({i \in 1..Len(ts) : ts[i].st = "created" /\ ~IsBlank(ts[i].query)})

HasEnded(t, now) == t.beh.kind \in {"return", "raise"} /\ t.at + t.beh.dur <= now

IsRunning(t, now) == t.st = "running" /\ ~HasEnded(t, now)

\* what is left of the tasks once search_all's frame is gone: the tasks that
\* nobody awaited or cancelled and that have not ended by themselves
RECURSIVE Settle(_, _)
Settle(ts, now) ==
    IF ts = <<>> THEN <<>>
    ELSE IF IsRunning(Head(ts), now)
    THEN <<[Head(ts) EXCEPT !.beh = NoBeh]>> \o Settle(Tail(ts), now)
    ELSE Settle(Tail(ts), now)

\* lines 95-113: the await on task j ended with `out` at time `now`, the tasks being ts
AfterAwait(j, out, now, ts) ==
    LET e == AwaitEntry(out)
        name == ts[j].name
        res == IF e.set THEN Put(results, name, e.entry) ELSE results
    IN  /\ searchCalls' = searchCalls + NewCalls(tasks)
        /\ IF e.absorbed
           THEN /\ clock' = now
                /\ results' = res
                /\ tasks' = ts
                /\ IF j = Len(ts)
                   THEN returned' = [has |-> TRUE, map |-> res] /\ pc' = "post"
                   ELSE returned' = returned /\ pc' = "collect"
                /\ cIdx' = j + 1
                /\ UNCHANGED <<pending, cleanup>>
           ELSE /\ clock' = now
                /\ pending' = out.exc
                /\ pc' = "raised"
                /\ tasks' = ts
                /\ UNCHANGED <<results, returned, cIdx, cleanup>>

\* task j ends (returns, or raises) no later than the deadline of its wait_for
CollectDone ==
    /\ pc = "collect"
    /\ LET t == tasks[cIdx]
           fin == t.at + t.beh.dur
       IN  /\ t.beh.kind \in {"return", "raise"}
           /\ fin <= clock + SearchTimeout
           /\ AfterAwait(cIdx, search_scraper(t.name, t.query, t.beh), Max(clock, fin),
                         [Started(tasks) EXCEPT ![cIdx].st = "completed"])
    /\ UNCHANGED <<call, args, built, scrapers, warnings, termIdx, interrupt, outcome>>

\* "await task" without wait_for: no deadline ever expires
CollectNoDeadline ==
    /\ pc = "collect"
    /\ FALSE
    /\ UNCHANGED vars

\* the wait_for on task j expires: the task is cancelled, TimeoutError is raised
CollectTimeout ==
    /\ pc = "collect"
    /\ LET t == tasks[cIdx]
       IN  /\ t.beh.kind = "stall" \/ t.at + t.beh.dur >= clock + SearchTimeout
           /\ AfterAwait(cIdx, Raised("TimeoutError"), clock + SearchTimeout,
                         [Started(tasks) EXCEPT ![cIdx].st = "timedout"])
    /\ UNCHANGED <<call, args, built, scrapers, warnings, termIdx, interrupt, outcome>>

\* an interrupt arrives while search_all awaits task j: the main task is cancelled
\* (CancelledError at the await, the awaited task cancelled with it) or
\* KeyboardInterrupt is raised in the running code
CollectInterrupt ==
    /\ pc = "collect"
    /\ ~interrupt.has
    /\ \E kind \in {"CancelledError", "KeyboardInterrupt"} :
         LET t == tasks[cIdx]
         IN  /\ kind = "CancelledError" => ~HasEnded(t, clock)
             /\ interrupt' = [has |-> TRUE, kind |-> kind]
             /\ AfterAwait(cIdx, Raised(kind), clock,
                           IF kind = "CancelledError"
                           THEN [Started(tasks) EXCEPT ![cIdx].st = "cancelled"]
                           ELSE Started(tasks))
    /\ UNCHANGED <<call, args, built, scrapers, warnings, termIdx, outcome>>

----------------------------------------------------------------------------
(* main(): the rest of the loop body, lines 470-489 *)

\* an exception left search_all: the handlers of main's two try statements,
\* then the finally clause is entered
MainExcept ==
    /\ pc = "raised"
    /\ pending' = MainHandle(pending)
    /\ IF MainHandle(pending) = "none"
       THEN /\ pc' = "post"
            /\ UNCHANGED <<cleanup, tasks, clock>>
       ELSE /\ pc' = "cleanup"
            /\ \E closers \in CloserSets : cleanup' = EnterCleanup(closers)
            /\ tasks' = Settle(tasks, clock)
            /\ clock' = 0
    /\ results' = EmptyMap
    /\ returned' = NoMap
    /\ cIdx' = 0
    /\ UNCHANGED <<call, args, built, scrapers, warnings, termIdx, searchCalls, interrupt,
                   outcome>>

\* filter_by_days and format_results on the returned mapping: they succeed, or
\* raise an Exception that the inner handler reports ("error"), or that handler
\* itself fails and the outer handler exits with status 1 ("handler_error")
PostProcess ==
    /\ pc = "post"
    /\ \E how \in {"ok", "error", "handler_error"} :
         /\ pending' = IF how = "handler_error" THEN "FatalExit" ELSE "none"
         /\ IF how = "handler_error" \/ termIdx = Len(args.terms)
            THEN /\ pc' = "cleanup"
                 /\ \E closers \in CloserSets : cleanup' = EnterCleanup(closers)
                 /\ UNCHANGED termIdx
            ELSE /\ pc' = "loop"
                 /\ termIdx' = termIdx + 1
                 /\ UNCHANGED cleanup
    /\ tasks' = <<>>
    /\ results' = EmptyMap
    /\ returned' = NoMap
    /\ clock' = 0
    /\ cIdx' = 0
    /\ UNCHANGED <<call, args, built, scrapers, warnings, searchCalls, interrupt, outcome>>

----------------------------------------------------------------------------
(* main(): the finally clause, lines 490-497, and AudioSearch.close_all *)

\* how long a close() that ends takes, and a forced browser.close() that ends
CloseDurations == {2, 4}
ForcedDurations == {3}

\* the close_all loop has dealt with scrapers[cleanup.idx]
\* after `took` time units; how: absent, closed, raised, timeout, forced, cut, stuck
Logged(how, took) ==
    [cleanup EXCEPT !.idx = @ + 1,
                    !.failed = @ \/ how \notin {"absent", "closed"},
                    !.overran = @ \/ took > CloseTimeout]

\* lines 493-497: the cleanup await ends with close_all in state c; main() is left
Finish(c) ==
    LET e == IF c.raised = "CancelledError" THEN "TimeoutError" ELSE c.raised
        final == IF e # "none" /\ ~MainCleanupCatches(e) THEN e ELSE pending
    IN  /\ cleanup' = c
        /\ outcome' = RunOutcome(final)
        /\ pc' = "done"

\* line 135: the adapter has no close()
CloseAbsent ==
    /\ pc = "cleanup"
    /\ cleanup.idx <= Len(scrapers)
    /\ scrapers[cleanup.idx] \notin cleanup.closers
    /\ cleanup' = Logged("absent", 0)
    /\ UNCHANGED <<call, args, pc, built, scrapers, warnings, termIdx, tasks, cIdx, results,
                   returned, clock, searchCalls, pending, interrupt, outcome>>

\* lines 136-138, 146-154: close() returns or raises an Exception within both deadlines
CloseReturns ==
    /\ pc = "cleanup"
    /\ cleanup.idx <= Len(scrapers)
    /\ scrapers[cleanup.idx] \in cleanup.closers
    /\ \E d \in CloseDurations, how \in {"closed", "raised"} :
         /\ d <= CloseTimeout
         /\ cleanup.outerLive => clock + d <= CleanupTimeout
         /\ clock' = clock + d
         /\ IF how = "raised" /\ ~CloseAllCatches("Exception")
            THEN Finish([Logged(how, d) EXCEPT !.raised = "Exception"])
            ELSE cleanup' = Logged(how, d) /\ UNCHANGED <<pc, outcome>>
    /\ UNCHANGED <<call, args, built, scrapers, warnings, termIdx, tasks, cIdx, results,
                   returned, searchCalls, pending, interrupt>>

\* lines 139-145: close() exceeds its 5 units; when the adapter has a browser,
\* "await scraper.browser.close()" runs inside "try: ... except: pass", which
\* also swallows the CancelledError of the expiring cleanup deadline
CloseTimesOut ==
    /\ pc = "cleanup"
    /\ cleanup.idx <= Len(scrapers)
    /\ scrapers[cleanup.idx] \in cleanup.closers
    /\ cleanup.outerLive => clock + CloseTimeout <= CleanupTimeout
    /\ \E f \in {"nobrowser", "ends", "stall"}, fd \in ForcedDurations :
         LET t1 == clock + CloseTimeout
             swallowed == [Logged("forced", CleanupTimeout - clock)
                             EXCEPT !.outerLive = FALSE]
         IN  /\ f # "nobrowser" => scrapers[cleanup.idx] \in BrowserScrapers
             /\ CASE f = "nobrowser" ->
                       /\ clock' = t1
                       /\ cleanup' = Logged("timeout", CloseTimeout)
                       /\ pc' = pc
                  [] f = "ends" ->
                       IF ~cleanup.outerLive \/ t1 + fd <= CleanupTimeout
                       THEN /\ clock' = t1 + fd
                            /\ cleanup' = Logged("forced", CloseTimeout + fd)
                            /\ pc' = pc
                       ELSE /\ clock' = CleanupTimeout
                            /\ cleanup' = swallowed
                            /\ pc' = pc
                  [] f = "stall" ->
                       IF cleanup.outerLive
                       THEN /\ clock' = CleanupTimeout
                            /\ cleanup' = swallowed
                            /\ pc' = pc
                       ELSE /\ clock' = t1
                            /\ cleanup' = Logged("stuck", CloseTimeout + 1)
                            /\ pc' = "hung"
    /\ UNCHANGED <<call, args, built, scrapers, warnings, termIdx, tasks, cIdx, results,
                   returned, searchCalls, pending, interrupt, outcome>>

\* the 10-unit deadline of main expires while close_all awaits a close():
\* CancelledError passes both handlers of close_all, wait_for raises TimeoutError
CloseCutByOuter ==
    /\ pc = "cleanup"
    /\ cleanup.idx <= Len(scrapers)
    /\ scrapers[cleanup.idx] \in cleanup.closers
    /\ cleanup.outerLive
    /\ CleanupTimeout <= clock + CloseTimeout
    /\ clock' = CleanupTimeout
    /\ Finish([Logged("cut", CleanupTimeout - clock)
                 EXCEPT !.raised = "CancelledError", !.outerLive = FALSE])
    /\ UNCHANGED <<call, args, built, scrapers, warnings, termIdx, tasks, cIdx, results,
                   returned, searchCalls, pending, interrupt>>

\* the for loop of close_all is exhausted
CloseAllReturns ==
    /\ pc = "cleanup"
    /\ cleanup.idx > Len(scrapers)
    /\ Finish(cleanup)
    /\ UNCHANGED <<call, args, built, scrapers, warnings, termIdx, tasks, cIdx, results,
                   returned, clock, searchCalls, pending, interrupt>>

----------------------------------------------------------------------------

Next ==
    \/ ParseArgs
    \/ SearchAll
    \/ Dispatch
    \/ CollectDone
    \/ CollectTimeout
    \/ CollectInterrupt
    \/ MainExcept
    \/ PostProcess
    \/ CloseAbsent
    \/ CloseReturns
    \/ CloseTimesOut
    \/ CloseCutByOuter
    \/ CloseAllReturns

Spec == Init /\ [][Next]_vars

\* The event loop keeps running: created tasks are dispatched, a task that has
\* ended wakes the await on it, and the timer of a wait_for fires at its
\* deadline.  Nothing obliges an interrupt to arrive.
LiveSpec ==
    /\ Spec
    /\ WF_vars(Dispatch)
    /\ WF_vars(CollectDone)
    /\ WF_vars(CollectTimeout)

----------------------------------------------------------------------------
(* The selector alone: main() up to the construction of AudioSearch, for    *)
(* command lines over SelTokens                                             *)

SelTokenLists == UNION {[1..n -> SelTokens] : n \in 0..MaxTokens}

SelInit ==
    InitWith([include : SelTokenLists, exclude : SelTokenLists, terms : {<<"amp">>}], {NoCall})

SelNext == ParseArgs

SelSpec == SelInit /\ [][SelNext]_vars

----------------------------------------------------------------------------
(* Text: a date phrase is a sequence of one-character strings; a character  *)
(* outside ASCII is written by its code point, "U+00C3"                     *)

Digits == <<"0", "1", "2", "3", "4", "5", "6", "7", "8", "9">>

UpperCase == <<"A", "B", "C", "D", "E", "F", "G", "H", "I", "J", "K", "L", "M",
               "N", "O", "P", "Q", "R", "S", "T", "U", "V", "W", "X", "Y", "Z",
               "U+00C3", "U+00C5">>

LowerCase == <<"a", "b", "c", "d", "e", "f", "g", "h", "i", "j", "k", "l", "m",
               "n", "o", "p", "q", "r", "s", "t", "u", "v", "w", "x", "y", "z",
               "U+00E3", "U+00E5">>

\* \d
IsDigit(c) == c \in {Digits[i] : i \in 1..Len(Digits)}

DigitValue(c) == (CHOOSE i \in 1..Len(Digits) : Digits[i] = c) - 1

\* \s
IsSpace(c) == c \in {" ", "\t", "\n"}

\* str.lower() on one character
LowerChar(c) ==
    IF \E i \in 1..Len(UpperCase) : UpperCase[i] = c
    THEN LowerCase[CHOOSE i \in 1..Len(UpperCase) : UpperCase[i] = c]
    ELSE c

\* [a-z] under re.I
IsLetter(c) == \E i \in 1..26 : LowerCase[i] = LowerChar(c)

\* str.lower()
str_lower(s) == [i \in 1..Len(s) |-> LowerChar(s[i])]

\* str.strip()
str_strip(s) ==
    LET keep == {i \in 1..Len(s) : ~IsSpace(s[i])}
    IN  IF keep = {} THEN <<>>
        ELSE SubSeq(s, CHOOSE i \in keep : \A j \in keep : i <= j,
                       CHOOSE i \in keep : \A j \in keep : i >= j)

\* the character at position i, or "" past the end of the text
CharAt(s, i) == IF i \in 1..Len(s) THEN s[i] ELSE ""

\* the literal w stands at position i of s
StartsAt(s, i, w) ==
    /\ i >= 1
    /\ i + Len(w) - 1 <= Len(s)
    /\ \A k \in 1..Len(w) : s[i + k - 1] = w[k]

\* "w in s"
Contains(s, w) == \E i \in 1..(Len(s) + 1) : StartsAt(s, i, w)

\* the literal w stands at position i of s, letter case ignored (re.I)
StartsAtI(s, i, w) ==
    /\ i >= 1
    /\ i + Len(w) - 1 <= Len(s)
    /\ \A k \in 1..Len(w) : LowerChar(s[i + k - 1]) = LowerChar(w[k])

\* the length of the longest run of digits / of whitespace that starts at position i
RECURSIVE DigitRun(_, _)
DigitRun(s, i) == IF IsDigit(CharAt(s, i)) THEN 1 + DigitRun(s, i + 1) ELSE 0

RECURSIVE SpaceRun(_, _)
SpaceRun(s, i) == IF IsSpace(CharAt(s, i)) THEN 1 + SpaceRun(s, i + 1) ELSE 0

\* int() of the n digits that start at position i
RECURSIVE ToInt(_, _, _)
ToInt(s, i, n) ==
    IF n = 0 THEN 0
    ELSE 10 * ToInt(s, i, n - 1) + DigitValue(s[i + n - 1])

\* the smallest member of a non-empty set of positions
Leftmost(S) == CHOOSE i \in S : \A j \in S : i <= j

----------------------------------------------------------------------------
(* Calendar: datetime and timedelta.  A point in time is the number of      *)
(* hours since 0001-01-01 00:00, the first representable datetime; the      *)
(* clock reading `now` is a record [year, month, day, hour].                *)

HoursPerDay == 24
MinYear == 1            \* datetime.MINYEAR
MaxYear == 9999         \* datetime.MAXYEAR
MaxDeltaDays == 999999999   \* timedelta.max.days

IsLeap(y) == y % 4 = 0 /\ (y % 100 # 0 \/ y % 400 = 0)

DaysInMonth(y, m) ==
    CASE m \in {1, 3, 5, 7, 8, 10, 12} -> 31
      [] m \in {4, 6, 9, 11} -> 30
      [] OTHER -> IF IsLeap(y) THEN 29 ELSE 28

DaysBeforeYear(y) ==
    (y - 1) * 365 + ((y - 1) \div 4) - ((y - 1) \div 100) + ((y - 1) \div 400)

RECURSIVE DaysBeforeMonth(_, _)
DaysBeforeMonth(y, m) ==
    IF m = 1 THEN 0 ELSE DaysBeforeMonth(y, m - 1) + DaysInMonth(y, m - 1)

\* date.toordinal(): 0001-01-01 is day 1
Ordinal(y, m, d) == DaysBeforeYear(y) + DaysBeforeMonth(y, m) + d

\* midnight of the day y-m-d
Midnight(y, m, d) == (Ordinal(y, m, d) - 1) * HoursPerDay

\* the results of the date functions: a point in time, None, or an exception
Date(t) == [tag |-> "date", t |-> t, exc |-> "none"]
None == [tag |-> "none", t |-> 0, exc |-> "none"]
Raises(exc) == [tag |-> "exc", t |-> 0, exc |-> exc]

\* datetime without the range check: a day past the end of its month runs on
\* into the following days
datetimeUnchecked(y, m, d) == Date(Midnight(y, IF m \in 1..12 THEN m ELSE 12, d))

\* datetime(year, month, day): ValueError outside the calendar
datetime(y, m, d) ==
    IF y \in MinYear..MaxYear /\ m \in 1..12 /\ d \in 1..DaysInMonth(y, m)
    THEN Date(Midnight(y, m, d))
    ELSE Raises("ValueError")

\* the point in time of a clock reading
Instant(now) == Midnight(now.year, now.month, now.day) + now.hour

\* t - timedelta(days=days, hours=hours): OverflowError when the timedelta or
\* the result is out of range
Minus(t, days, hours) ==
    IF days + (hours \div HoursPerDay) > MaxDeltaDays THEN Raises("OverflowError")
    ELSE IF t - (days * HoursPerDay + hours) < 0 THEN Raises("OverflowError")
    ELSE Date(t - (days * HoursPerDay + hours))

\* .replace(hour=0, minute=0, second=0, microsecond=0) on a result
AtMidnight(r) == IF r.tag = "date" THEN Date(r.t - (r.t % HoursPerDay)) ELSE r

----------------------------------------------------------------------------
(* parse_date, lines 157-253 *)

\* the value None of an Optional[str]
NoText == <<"None">>

\* r'(\d+)\s+(unit|units?)\s+ago' under re.I matches at position i
AgoMatchAt(s, i, unit) ==
    LET n == DigitRun(s, i)
        k == i + n + SpaceRun(s, i + n)
        p == k + Len(unit) + (IF StartsAtI(s, k + Len(unit), <<"s">>) THEN 1 ELSE 0)
    IN  /\ n >= 1
        /\ SpaceRun(s, i + n) >= 1
        /\ StartsAtI(s, k, unit)
        /\ SpaceRun(s, p) >= 1
        /\ StartsAtI(s, p + SpaceRun(s, p), <<"a", "g", "o">>)

\* re.search of that pattern: int(group(1)) of the leftmost match, or -1
AgoSearch(s, unit) ==
    LET M == {i \in 1..Len(s) : AgoMatchAt(s, i, unit)}
    IN  IF M = {} THEN -1 ELSE ToInt(s, Leftmost(M), DigitRun(s, Leftmost(M)))

\* r'(\d{4})-(\d{2})-(\d{2})' matches at position i
IsoMatchAt(s, i) ==
    /\ DigitRun(s, i) >= 4
    /\ CharAt(s, i + 4) = "-"
    /\ DigitRun(s, i + 5) >= 2
    /\ CharAt(s, i + 7) = "-"
    /\ DigitRun(s, i + 8) >= 2

\* lines 200-206: the ISO family; a ValueError is caught and passed over
IsoDate(s) ==
    LET M == {i \in 1..Len(s) : IsoMatchAt(s, i)}
        i == Leftmost(M)
    IN  IF M = {} THEN None
        ELSE LET r == datetime(ToInt(s, i, 4), ToInt(s, i + 5, 2), ToInt(s, i + 8, 2))
             IN  IF r.tag = "date" THEN r ELSE None

swedish_months == <<<<"j", "a", "n">>, <<"f", "e", "b">>, <<"m", "a", "r">>, <<"a", "p", "r">>, <<"m", "a", "j">>, <<"j", "u", "n">>, <<"j", "u", "l">>, <<"a", "u", "g">>, <<"s", "e", "p">>, <<"o", "k", "t">>, <<"n", "o", "v">>, <<"d", "e", "c">>>>

english_months == <<<<"j", "a", "n">>, <<"f", "e", "b">>, <<"m", "a", "r">>, <<"a", "p", "r">>, <<"m", "a", "y">>, <<"j", "u", "n">>, <<"j", "u", "l">>, <<"a", "u", "g">>, <<"s", "e", "p">>, <<"o", "c", "t">>, <<"n", "o", "v">>, <<"d", "e", "c">>>>

\* dict.get: the month number of a three-letter key, or 0 (None)
MonthGet(table, key) ==
    IF \E m \in 1..12 : table[m] = key
    THEN CHOOSE m \in 1..12 : table[m] = key
    ELSE 0

\* r'(\d{1,2})\s+([a-z]{3})\.?\s*(?:,?\s*(\d{4}))?' under re.I at position i:
\* [matched, day, key, year] with year = -1 when group 3 did not take part
DayMonthAt(s, i) ==
    LET n == IF IsDigit(CharAt(s, i + 1)) THEN 2 ELSE 1
        k == i + n + SpaceRun(s, i + n)
        q == k + 3 + (IF CharAt(s, k + 3) = "." THEN 1 ELSE 0)
        q2 == q + SpaceRun(s, q)
        q3 == q2 + (IF CharAt(s, q2) = "," THEN 1 ELSE 0)
        y == q3 + SpaceRun(s, q3)
    IN  IF /\ IsDigit(CharAt(s, i))
           /\ SpaceRun(s, i + n) >= 1
           /\ \A j \in k..(k + 2) : IsLetter(CharAt(s, j))
        THEN [matched |-> TRUE, day |-> ToInt(s, i, n),
              key |-> str_lower(SubSeq(s, k, k + 2)),
              year |-> IF DigitRun(s, y) >= 4 THEN ToInt(s, y, 4) ELSE -1]
        ELSE [matched |-> FALSE, day |-> 0, key |-> <<>>, year |-> -1]

\* the day + month-name family without the previous-year rule of lines 232-234
DayMonthDateCurrentYear(s, now) ==
    LET M == {i \in 1..Len(s) : DayMonthAt(s, i).matched}
        g == DayMonthAt(s, Leftmost(M))
        sv == MonthGet(swedish_months, g.key)
        month == IF sv # 0 THEN sv ELSE MonthGet(english_months, g.key)
        this == datetime(IF g.year # -1 THEN g.year ELSE now.year, month, g.day)
    IN  IF M = {} THEN None
        ELSE IF month = 0 THEN None
        ELSE IF this.tag = "date" THEN this ELSE None

\* the day + month-name family with ">=" for the ">" of line 233
DayMonthDateNotAfter(s, now) ==
    LET M == {i \in 1..Len(s) : DayMonthAt(s, i).matched}
        g == DayMonthAt(s, Leftmost(M))
        sv == MonthGet(swedish_months, g.key)
        month == IF sv # 0 THEN sv ELSE MonthGet(english_months, g.key)
        year == IF g.year # -1 THEN g.year ELSE now.year
        this == datetime(year, month, g.day)
    IN  IF M = {} THEN None
        ELSE IF month = 0 THEN None
        ELSE IF g.year = -1
        THEN IF this.tag # "date" THEN None
             ELSE IF this.t >= Instant(now)
             THEN LET prev == datetime(now.year - 1, month, g.day)
                  IN  IF prev.tag = "date" THEN prev ELSE None
             ELSE this
        ELSE IF this.tag = "date" THEN this ELSE None

\* lines 221-237: the day + month-name family; ValueError is caught and passed over
DayMonthDate(s, now) ==
    LET M == {i \in 1..Len(s) : DayMonthAt(s, i).matched}
        g == DayMonthAt(s, Leftmost(M))
        sv == MonthGet(swedish_months, g.key)
        month == IF sv # 0 THEN sv ELSE MonthGet(english_months, g.key)
        year == IF g.year # -1 THEN g.year ELSE now.year
        this == datetime(year, month, g.day)
    IN  IF M = {} THEN None
        ELSE IF month = 0 THEN None
        ELSE IF g.year = -1
        THEN IF this.tag # "date" THEN None
             ELSE IF this.t > Instant(now)
             THEN LET prev == datetime(now.year - 1, month, g.day)
                  IN  IF prev.tag = "date" THEN prev ELSE None
             ELSE this
        ELSE IF this.tag = "date" THEN this ELSE None

\* r'(\d{1,2})[/-](\d{1,2})[/-](\d{2,4})' at position i: [matched, day, month, year]
SlashAt(s, i) ==
    LET n1 == IF IsDigit(CharAt(s, i + 1)) THEN 2 ELSE 1
        j == i + n1 + 1
        n2 == IF IsDigit(CharAt(s, j + 1)) THEN 2 ELSE 1
        k == j + n2 + 1
        n3 == Min(4, DigitRun(s, k))
    IN  IF /\ IsDigit(CharAt(s, i))
           /\ CharAt(s, i + n1) \in {"/", "-"}
           /\ IsDigit(CharAt(s, j))
           /\ CharAt(s, j + n2) \in {"/", "-"}
           /\ n3 >= 2
        THEN [matched |-> TRUE, day |-> ToInt(s, i, n1), month |-> ToInt(s, j, n2),
              year |-> ToInt(s, k, n3)]
        ELSE [matched |-> FALSE, day |-> 0, month |-> 0, year |-> 0]

\* lines 240-250: the slash / dash family
SlashDate(s) ==
    LET M == {i \in 1..Len(s) : SlashAt(s, i).matched}
        g == SlashAt(s, Leftmost(M))
        r == datetime(IF g.year < 100 THEN g.year + 2000 ELSE g.year, g.month, g.day)
    IN  IF M = {} THEN None
        ELSE IF r.tag = "date" THEN r ELSE None

\* the absolute families with the slash / dash family tried first
AbsoluteDateSlashFirst(s, now) ==
    IF SlashDate(s).tag = "date" THEN SlashDate(s)
    ELSE IF IsoDate(s).tag = "date" THEN IsoDate(s)
    ELSE DayMonthDate(s, now)

\* lines 198-253: the absolute families in their order, None when none yields a date
AbsoluteDate(s, now) ==
    IF IsoDate(s).tag = "date" THEN IsoDate(s)
    ELSE IF DayMonthDate(s, now).tag = "date" THEN DayMonthDate(s, now)
    ELSE SlashDate(s)

\* parse_date(date_str), the clock reading of line 169 being now
parse_date(date_str, now) ==
    IF date_str = NoText \/ date_str = <<>> THEN None
    ELSE LET s == str_strip(date_str)
             low == str_lower(s)
             t == Instant(now)
         IN  IF Contains(low, <<"j", "u", "s", "t", " ", "n", "o", "w">>) \/ Contains(low, <<"n", "u">>) THEN Date(t)
             ELSE IF Contains(low, <<"i", "d", "a", "g">>) \/ Contains(low, <<"t", "o", "d", "a", "y">>)
             THEN AtMidnight(Date(t))
             ELSE IF Contains(low, <<"i", "g", "U+00C3", "U+00A5", "r">>) \/ Contains(low, <<"y", "e", "s", "t", "e", "r", "d", "a", "y">>)
             THEN AtMidnight(Minus(t, 1, 0))
             ELSE IF AgoSearch(s, <<"d", "a", "y">>) # -1
             THEN AtMidnight(Minus(t, AgoSearch(s, <<"d", "a", "y">>), 0))
             ELSE IF AgoSearch(s, <<"h", "o", "u", "r">>) # -1
             THEN Minus(t, 0, AgoSearch(s, <<"h", "o", "u", "r">>))
             ELSE IF AgoSearch(s, <<"w", "e", "e", "k">>) # -1
             THEN AtMidnight(Minus(t, 7 * AgoSearch(s, <<"w", "e", "e", "k">>), 0))
             ELSE AbsoluteDate(s, now)

----------------------------------------------------------------------------
(* Direct calls of parse_date: the date phrases and clock readings examined *)

\* date phrases, as listings carry them in posted_date
P_iso == <<"2", "0", "2", "4", "-", "1", "0", "-", "1", "5">>
P_3_days_ago == <<"3", " ", "d", "a", "y", "s", " ", "a", "g", "o">>
P_22_sep == <<"2", "2", " ", "s", "e", "p">>
P_not_a_date == <<"n", "o", "t", " ", "a", " ", "d", "a", "t", "e">>
P_Oct_17_2025 == <<"O", "c", "t", " ", "1", "7", ",", " ", "2", "0", "2", "5">>
P_17_10_2025 == <<"1", "7", "/", "1", "0", "/", "2", "0", "2", "5">>
P_17_Oct_2025 == <<"1", "7", " ", "O", "c", "t", " ", "2", "0", "2", "5">>
P_just_now == <<"j", "u", "s", "t", " ", "n", "o", "w">>
P_2_hours_ago == <<"2", " ", "h", "o", "u", "r", "s", " ", "a", "g", "o">>
P_9999999_days_ago == <<"9", "9", "9", "9", "9", "9", "9", " ", "d", "a", "y", "s", " ", "a", "g", "o">>
P_0001_01_01 == <<"0", "0", "0", "1", "-", "0", "1", "-", "0", "1">>
P_2024_02_30 == <<"2", "0", "2", "4", "-", "0", "2", "-", "3", "0">>
P_blank == <<" ", " ">>

\* phrases that more than one family matches, and phrases with values that no
\* calendar date has
P_2_hours_ago_iso == <<"2", " ", "h", "o", "u", "r", "s", " ", "a", "g", "o", " ", "2", "0", "2", "4", "-", "1", "0", "-", "1", "5">>
P_3_days_2_hours == <<"3", " ", "d", "a", "y", "s", " ", "a", "g", "o", " ", "2", " ", "h", "o", "u", "r", "s", " ", "a", "g", "o">>
P_2_hours_today == <<"2", " ", "h", "o", "u", "r", "s", " ", "a", "g", "o", " ", "t", "o", "d", "a", "y">>
P_yesterday_just_now == <<"y", "e", "s", "t", "e", "r", "d", "a", "y", " ", "j", "u", "s", "t", " ", "n", "o", "w">>
P_15_okt_2024_slash == <<"1", "5", " ", "o", "k", "t", " ", "2", "0", "2", "4", " ", "0", "1", "/", "0", "2", "/", "2", "0", "2", "3">>
P_1_week_3_days == <<"1", " ", "w", "e", "e", "k", " ", "a", "g", "o", " ", "3", " ", "d", "a", "y", "s", " ", "a", "g", "o">>
P_32_sep == <<"3", "2", " ", "s", "e", "p">>
P_2024_13_01 == <<"2", "0", "2", "4", "-", "1", "3", "-", "0", "1">>
P_31_02_2025 == <<"3", "1", "/", "0", "2", "/", "2", "0", "2", "5">>
P_29_feb == <<"2", "9", " ", "f", "e", "b">>
P_30_feb_2024 == <<"3", "0", " ", "f", "e", "b", " ", "2", "0", "2", "4">>
P_2024_02_30_22_sep == <<"2", "0", "2", "4", "-", "0", "2", "-", "3", "0", " ", "2", "2", " ", "s", "e", "p">>

DatePhrases ==
    {P_iso, P_3_days_ago, P_22_sep, P_not_a_date, P_Oct_17_2025,
     P_17_10_2025, P_17_Oct_2025, P_just_now, P_2_hours_ago, P_9999999_days_ago,
     P_0001_01_01, P_2024_02_30, P_blank,
     P_2_hours_ago_iso, P_3_days_2_hours, P_2_hours_today, P_yesterday_just_now,
     P_15_okt_2024_slash, P_1_week_3_days, P_32_sep, P_2024_13_01, P_31_02_2025,
     P_29_feb, P_30_feb_2024, P_2024_02_30_22_sep,
     NoText, <<>>}

\* clock readings, in ascending order: before and on the leap day of 2024,
\* around midnight before 22 Sep 2025, and later that year
Clock ==
    <<[year |-> 2024, month |-> 1, day |-> 15, hour |-> 10],
      [year |-> 2024, month |-> 2, day |-> 29, hour |-> 12],
      [year |-> 2025, month |-> 3, day |-> 10, hour |-> 15],
      [year |-> 2025, month |-> 9, day |-> 21, hour |-> 22],
      [year |-> 2025, month |-> 9, day |-> 21, hour |-> 23],
      [year |-> 2025, month |-> 9, day |-> 22, hour |-> 0],
      [year |-> 2025, month |-> 9, day |-> 22, hour |-> 1],
      [year |-> 2025, month |-> 10, day |-> 20, hour |-> 9]>>

\* a call that has not returned yet
Pending == [tag |-> "pending", t |-> 0, exc |-> "none"]

DateCalls ==
    {[fn |-> "parse_date", arg |-> [date_str |-> d, now |-> Clock[c]], ret |-> Pending] :
        d \in DatePhrases, c \in 1..Len(Clock)}

Idle == [include |-> <<>>, exclude |-> <<>>, terms |-> <<"amp">>]

DateInit == InitWith({Idle}, DateCalls)

\* parse_date(date_str) runs and returns, or raises
CallParseDate ==
    /\ call.fn = "parse_date"
    /\ call.ret = Pending
    /\ call' = [call EXCEPT !.ret = parse_date(call.arg.date_str, call.arg.now)]
    /\ UNCHANGED <<args, pc, built, scrapers, warnings, termIdx, tasks, cIdx, results,
                   returned, clock, searchCalls, pending, interrupt, cleanup, outcome>>

DateNext == CallParseDate

DateSpec == DateInit /\ [][DateNext]_vars

----------------------------------------------------------------------------
(* filter_by_days, lines 256-288, and the sort of format_results, lines     *)
(* 291-331.  A dict is the sequence of its items [name, listings] in        *)
(* insertion order; a listing is [source, id, posted_date].  The clock of a *)
(* pass is [start, tick]: its k-th call of datetime.now() reads             *)
(* Clock[start + (k - 1) * tick].                                           *)

MaxListings == 2    \* most listings of one source

Reading(c, k) == Clock[Min(c.start + (k - 1) * c.tick, Len(Clock))]

\* not listing.posted_date
NoDate(l) == l.posted_date = NoText \/ l.posted_date = <<>>

\* lines 270-284 for one listing: listing_date is its parsed date (not looked
\* at when the listing has no date text), rest the outcome for the listings
\* after it
KeepOrDrop(l, listing_date, cutoff, rest) ==
    IF ~NoDate(l) /\ listing_date.tag = "exc"
    THEN [tag |-> "exc", exc |-> listing_date.exc, value |-> <<>>, k |-> rest.k]
    ELSE IF rest.tag = "exc" THEN rest
    ELSE IF NoDate(l) \/ listing_date.tag = "none" \/ listing_date.t >= cutoff
    THEN [rest EXCEPT !.value = <<l>> \o @]
    ELSE rest

\* lines 268-284 for the listings of one source, k readings of the clock having
\* been taken before: [tag, exc, value, k]
RECURSIVE filter_listings(_, _, _, _)
filter_listings(listings, cutoff, c, k) ==
    IF listings = <<>> THEN [tag |-> "ok", exc |-> "none", value |-> <<>>, k |-> k]
    ELSE KeepOrDrop(Head(listings),
                    parse_date(Head(listings).posted_date, Reading(c, k + 1)),
                    cutoff,
                    filter_listings(Tail(listings), cutoff, c,
                                    IF NoDate(Head(listings)) THEN k ELSE k + 1))

\* line 286: the entry of one source, f the outcome of its listings, rest the
\* outcome of the sources after it
AddSource(name, f, rest) ==
    IF f.tag = "exc" THEN f
    ELSE IF rest.tag = "exc" THEN rest
    ELSE [rest EXCEPT !.value = <<[name |-> name, listings |-> f.value]>> \o @]

\* the readings of the clock taken for the listings of one source
RECURSIVE Readings(_)
Readings(listings) ==
    IF listings = <<>> THEN 0
    ELSE (IF NoDate(Head(listings)) THEN 0 ELSE 1) + Readings(Tail(listings))

\* lines 267-286: the loop over results.items()
RECURSIVE filter_sources(_, _, _, _)
filter_sources(results_, cutoff, c, k) ==
    IF results_ = <<>> THEN [tag |-> "ok", exc |-> "none", value |-> <<>>, k |-> k]
    ELSE AddSource(Head(results_).name,
                   filter_listings(Head(results_).listings, cutoff, c, k),
                   filter_sources(Tail(results_), cutoff, c,
                                  k + Readings(Head(results_).listings)))

\* lines 264-288, cutoff_date being the outcome of line 264
FilterFrom(results_, cutoff_date, f) ==
    IF cutoff_date.tag = "exc" THEN Raised(cutoff_date.exc)
    ELSE IF f.tag = "exc" THEN Raised(f.exc)
    ELSE Ok(f.value)

\* filter_by_days(results, days_back)
filter_by_days(results_, days_back, c) ==
    IF days_back <= 0 THEN Ok(results_)
    ELSE FilterFrom(results_,
                    Minus(Instant(Reading(c, 1)), days_back, 0),
                    filter_sources(results_,
                                   Instant(Reading(c, 1)) - days_back * HoursPerDay, c, 1))

\* lines 311-314: all_listings
RECURSIVE Flatten(_)
Flatten(results_) ==
    IF results_ = <<>> THEN <<>>
    ELSE Head(results_).listings \o Flatten(Tail(results_))

\* datetime.timestamp() of a naive datetime, in hours since 1970-01-01: the
\* conversion looks one day back and raises ValueError on 0001-01-01
timestamp(t) ==
    IF t < HoursPerDay THEN Raised("ValueError")
    ELSE Ok(t - Midnight(1970, 1, 1))

\* lines 319-329, parsed_date being the outcome of line 323 (not looked at when
\* the listing has no date text): (1, datetime.min) is [rank 1, ts 0]
SortKey(l, parsed_date) ==
    IF NoDate(l) THEN Ok([rank |-> 1, ts |-> 0])
    ELSE IF parsed_date.tag = "exc" THEN Raised(parsed_date.exc)
    ELSE IF parsed_date.tag = "none" THEN Ok([rank |-> 1, ts |-> 0])
    ELSE IF timestamp(parsed_date.t).tag = "exc" THEN timestamp(parsed_date.t)
    ELSE Ok([rank |-> 0, ts |-> 0 - timestamp(parsed_date.t).value])

\* get_sort_key(item), lines 317-329
get_sort_key(l, now) == SortKey(l, parse_date(l.posted_date, now))

\* the item l paired with its key, in front of the items after it
PairWithKey(l, key, rest) ==
    IF key.tag = "exc" THEN key
    ELSE IF rest.tag = "exc" THEN rest
    ELSE Ok(<<[item |-> l, key |-> key.value]>> \o rest.value)

\* list.sort(key=...) first calls the key function on every item in list order:
\* the items paired with their keys, k readings having been taken before
RECURSIVE Keyed(_, _, _)
Keyed(items, c, k) ==
    IF items = <<>> THEN Ok(<<>>)
    ELSE PairWithKey(Head(items),
                     get_sort_key(Head(items), Reading(c, k + 1)),
                     Keyed(Tail(items), c, IF NoDate(Head(items)) THEN k ELSE k + 1))

\* tuple comparison of two keys
KeyLess(a, b) == a.rank < b.rank \/ (a.rank = b.rank /\ a.ts < b.ts)

\* list.sort is stable: x, the last of the items so far, goes behind every
\* item whose key is not greater than its own
RECURSIVE Insert(_, _)
Insert(x, sorted) ==
    IF sorted = <<>> THEN <<x>>
    ELSE IF KeyLess(x.key, Head(sorted).key) THEN <<x>> \o sorted
    ELSE <<Head(sorted)>> \o Insert(x, Tail(sorted))

RECURSIVE SortByKey(_)
SortByKey(keyed) ==
    IF keyed = <<>> THEN <<>>
    ELSE Insert(keyed[Len(keyed)], SortByKey(SubSeq(keyed, 1, Len(keyed) - 1)))

RECURSIVE Items(_)
Items(sorted) ==
    IF sorted = <<>> THEN <<>>
    ELSE <<Head(sorted).item>> \o Items(Tail(sorted))

\* lines 331-353: what is displayed once the keys are computed
Displayed(keyed) ==
    IF keyed.tag = "exc" THEN keyed
    ELSE Ok(Items(SortByKey(keyed.value)))

\* format_results(results, ...): the sequence of listings it displays
format_results(results_, c) ==
    IF Flatten(results_) = <<>> THEN Ok(<<>>)
    ELSE Displayed(Keyed(Flatten(results_), c, 0))

\* the date phrases of the listings, the ages asked for and the clocks of the passes
PassPhrases ==
    {NoText, P_not_a_date, P_iso, P_2_hours_ago, P_3_days_ago,
     P_9999999_days_ago, P_0001_01_01}

DaysBack == {-5, 0, 3, 4, 800000}

PassClocks == {[start |-> 4, tick |-> 0], [start |-> 4, tick |-> 1]}

PhraseLists == UNION {[1..n -> PassPhrases] : n \in 0..MaxListings}

ListingsOf(name, phrases) ==
    [i \in 1..Len(phrases) |-> [source |-> name, id |-> i, posted_date |-> phrases[i]]]

\* the empty mapping, and the mappings of two sources of which the second has
\* fewer than MaxListings listings
ResultMaps ==
    {<<>>} \cup
    {<<[name |-> "Blocket", listings |-> ListingsOf("Blocket", a)],
       [name |-> "HifiTorget", listings |-> ListingsOf("HifiTorget", b)]>> :
        a \in PhraseLists, b \in {x \in PhraseLists : Len(x) < MaxListings}}

PassCalls ==
    {[fn |-> "filter_by_days", arg |-> [results |-> r, days_back |-> d, clock |-> c],
      ret |-> Pending] : r \in ResultMaps, d \in DaysBack, c \in PassClocks}
    \cup
    {[fn |-> "format_results", arg |-> [results |-> r, clock |-> c], ret |-> Pending] :
        r \in ResultMaps, c \in PassClocks}

PassInit == InitWith({Idle}, PassCalls)

\* main, line 472
CallFilterByDays ==
    /\ call.fn = "filter_by_days"
    /\ call.ret = Pending
    /\ call' = [call EXCEPT
                  !.ret = filter_by_days(call.arg.results, call.arg.days_back, call.arg.clock)]
    /\ UNCHANGED <<args, pc, built, scrapers, warnings, termIdx, tasks, cIdx, results,
                   returned, clock, searchCalls, pending, interrupt, cleanup, outcome>>

\* main, line 474
CallFormatResults ==
    /\ call.fn = "format_results"
    /\ call.ret = Pending
    /\ call' = [call EXCEPT !.ret = format_results(call.arg.results, call.arg.clock)]
    /\ UNCHANGED <<args, pc, built, scrapers, warnings, termIdx, tasks, cIdx, results,
                   returned, clock, searchCalls, pending, interrupt, cleanup, outcome>>

PassNext ==
    \/ CallFilterByDays
    \/ CallFormatResults

PassSpec == PassInit /\ [][PassNext]_vars

----------------------------------------------------------------------------
(* Properties *)

Interrupted(o) == o \in {"interrupted", "cancelled"}

\* the entry search_all owes the source of an awaited task
Expected(t) ==
    IF t.st = "completed" /\ t.beh.kind = "return"
    THEN Listings(t.name, t.beh.n)
    ELSE <<>>

Awaited(t) == t.st \in {"completed", "timedout"}

EntriesRight ==
    \A k \in 1..Len(tasks) :
        Awaited(tasks[k]) =>
            /\ tasks[k].name \in DOMAIN results
            /\ results[tasks[k].name] = Expected(tasks[k])

\* C1: whenever search_all has returned a mapping, for a blank query too, the
\* keys of the mapping are exactly the names of the active adapters.
C1_KeysAreActiveAdapters ==
    returned.has => DOMAIN returned.map = Names(scrapers)

C3_FailureIsolated ==
    \A j \in 1..Len(tasks) :
        (tasks[j].st = "completed" /\ tasks[j].beh.kind = "raise") =>
            /\ tasks[j].name \in DOMAIN results
            /\ results[tasks[j].name] = <<>>
            /\ ~interrupt.has => (pc \in {"collect", "post"} /\ pending = "none")
            /\ pending # "Exception"
            /\ EntriesRight
            /\ pc = "post" => (returned.has /\ returned.map = results)

C3_Witness ==
    /\ pc = "post"
    /\ returned.has
    /\ \E j, k \in 1..Len(tasks) :
         /\ tasks[j].st = "completed"
         /\ tasks[j].beh.kind = "raise"
         /\ tasks[j].beh.dur = 0
         /\ returned.map[tasks[j].name] = <<>>
         /\ tasks[k].st = "completed"
         /\ tasks[k].beh.kind = "return"
         /\ returned.map[tasks[k].name] = Listings(tasks[k].name, tasks[k].beh.n)

\* C4: a result that an adapter produces more than 60 time units after its task
\* was dispatched is never accepted: that source is mapped to the empty list.
C4_DeadlineFromDispatch ==
    \A j \in 1..Len(tasks) :
        LET t == tasks[j]
        IN  (t.beh.kind = "return" /\ (t.at + t.beh.dur) - t.at > SearchTimeout
             /\ t.name \in DOMAIN results)
                => results[t.name] = <<>>

\* C5: an interrupt that arrives while search_all awaits a task is not absorbed:
\* the awaited source gets no entry, search_all returns no mapping, collection
\* stops, the exception reaches main and the run ends as interrupted.
C5_InterruptPropagates ==
    interrupt.has =>
        /\ ~returned.has
        /\ pc \in {"raised", "cleanup", "done", "hung"}
        /\ pc = "raised" =>
             /\ pending = interrupt.kind
             /\ tasks[cIdx].name \notin DOMAIN results
        /\ pc \in {"cleanup", "done", "hung"} =>
             pending \in {"InterruptExit", "CancelledError"}
        /\ pc = "done" => Interrupted(outcome)

C5_Witness ==
    /\ interrupt.has
    /\ pc = "done"
    /\ Interrupted(outcome)
    /\ cleanup.entered

\* C6: after an interrupt nothing more is dispatched or awaited by search_all,
\* and when the cleanup begins no task that search_all dispatched is still running.
C6_PendingTasksAborted ==
    interrupt.has =>
        /\ pc \notin {"loop", "dispatch", "collect", "post"}
        /\ pc = "cleanup" => tasks = <<>>

\* C7: every run that constructed the searcher enters the cleanup before it
\* ends, and the cleanup ends within its deadline of 10 time units: it never
\* takes longer and never hangs.
C7_CleanupRunsAndIsBounded ==
    /\ pc # "hung"
    /\ (pc = "done" /\ built) => (cleanup.entered /\ clock <= CleanupTimeout)

\* C8: in every run of the cleanup, close() is attempted on each active adapter
\* that has one, and no adapter's release takes more than its 5 time units.
C8_EveryCloseAttempted ==
    (pc \in {"done", "hung"} /\ built) =>
        /\ \A k \in 1..Len(scrapers) :
             scrapers[k] \in cleanup.closers => k < cleanup.idx
        /\ ~cleanup.overran

\* C9: close_all raises no release failure (an Exception of close(), or the
\* TimeoutError of a close()) to its caller, and the run ends with the outcome
\* it had when the cleanup began: success stays success, an interrupted run
\* stays interrupted.
C9_ReleaseFailureNotOutcome ==
    /\ cleanup.raised \in {"none", "CancelledError"}
    /\ (pc = "done" /\ built) =>
         /\ pending = "none" => outcome = "success"
         /\ interrupt.has => Interrupted(outcome)
         /\ pending = "FatalExit" => outcome = "fatal"

C9_Witness ==
    /\ pc = "done"
    /\ cleanup.failed
    /\ cleanup.raised = "CancelledError"
    /\ interrupt.has
    /\ outcome = "cancelled"

\* C10: when both an include-list and an exclude-list are given, the run ends
\* with the configuration error and nothing else happens: no searcher is
\* constructed, no active set is resolved, no warning is printed, no search runs.
C10_ConflictBlocksRun ==
    (args.include # <<>> /\ args.exclude # <<>>) =>
        /\ pc \in {"start", "done"}
        /\ pc = "done" => outcome = "config_error"
        /\ ~built
        /\ scrapers = <<>>
        /\ warnings = <<>>
        /\ tasks = <<>>
        /\ searchCalls = 0
        /\ ~cleanup.entered

C10_Witness ==
    /\ args.include # <<>>
    /\ args.exclude # <<>>
    /\ pc = "done"
    /\ outcome = "config_error"

----------------------------------------------------------------------------
(* Selector properties *)

\* a token matches a source name: equal to the full name, or to one of its
\* whitespace-delimited words, case-insensitively
TokenMatches(tok, name) ==
    Lower(tok) = Lower(name) \/ Lower(tok) \in Split(Lower(name))

Recognized(tok) == \E r \in 1..Len(Registry) : TokenMatches(tok, Registry[r])

\* the registry entry a recognized token selects: its first match in registry order
Selected(tok) ==
    Registry[CHOOSE r \in 1..Len(Registry) :
        /\ TokenMatches(tok, Registry[r])
        /\ \A q \in 1..(r - 1) : ~TokenMatches(tok, Registry[q])]

\* the index of the first token of toks that selects the source name
FirstToken(toks, name) ==
    CHOOSE i \in 1..Len(toks) :
        /\ Recognized(toks[i]) /\ Selected(toks[i]) = name
        /\ \A j \in 1..(i - 1) : ~(Recognized(toks[j]) /\ Selected(toks[j]) = name)

\* C11: after construction with an include-list, the active adapters are
\* exactly the entries selected by the recognized tokens (each token selecting
\* its first match in registry order), no adapter occurs twice, and they stand
\* in the order of the tokens that first selected them; include ["facebook"]
\* selects exactly Facebook Marketplace.
C11_IncludeSelection ==
    (built /\ args.include # <<>>) =>
        /\ Names(scrapers) =
               {Selected(args.include[i]) :
                    i \in {k \in 1..Len(args.include) : Recognized(args.include[k])}}
        /\ \A i, j \in 1..Len(scrapers) : i # j => scrapers[i] # scrapers[j]
        /\ \A i, j \in 1..Len(scrapers) :
               i < j => FirstToken(args.include, scrapers[i]) < FirstToken(args.include, scrapers[j])
        /\ args.include = <<"facebook">> => scrapers = <<"Facebook Marketplace">>

C11_Witness ==
    /\ built
    /\ args.include = <<"facebook", "blocket">>
    /\ scrapers = <<"Facebook Marketplace", "Blocket">>

\* the position of a source name in the registry
RegistryIndex(name) == CHOOSE r \in 1..Len(Registry) : Registry[r] = name

\* C12: after construction with an exclude-list (and no include-list), the
\* active adapters are the registry entries that no token selects, in registry
\* order; exclude ["Tradera", "Facebook"] leaves exactly Blocket, HifiTorget.
C12_ExcludeSelection ==
    (built /\ args.include = <<>> /\ args.exclude # <<>>) =>
        /\ Names(scrapers) =
               Names(Registry) \
                   {Selected(args.exclude[i]) :
                        i \in {k \in 1..Len(args.exclude) : Recognized(args.exclude[k])}}
        /\ \A i, j \in 1..Len(scrapers) :
               i < j => RegistryIndex(scrapers[i]) < RegistryIndex(scrapers[j])
        /\ args.exclude = <<"Tradera", "Facebook">> => scrapers = <<"Blocket", "HifiTorget">>

C12_Witness ==
    /\ built
    /\ args.include = <<>>
    /\ args.exclude = <<"Tradera", "Facebook">>
    /\ scrapers = <<"Blocket", "HifiTorget">>

\* the tokens of toks that match some registry entry, in order
RECURSIVE Known(_)
Known(toks) ==
    IF toks = <<>> THEN <<>>
    ELSE IF Recognized(Head(toks)) THEN <<Head(toks)>> \o Known(Tail(toks))
    ELSE Known(Tail(toks))

\* C13: once the searcher is constructed, every token of the list in use that
\* matches no registry entry has been reported in a warning, the construction
\* was not aborted (the run is past its start and never ends as a
\* configuration error), and the active adapters are those that the other
\* tokens alone select.
C13_UnknownTokenWarned ==
    built =>
        LET toks == IF args.include # <<>> THEN args.include ELSE args.exclude
        IN  /\ \A i \in 1..Len(toks) : ~Recognized(toks[i]) => InSeq(toks[i], warnings)
            /\ pc # "start"
            /\ outcome # "config_error"
            /\ args.include # <<>> =>
                   scrapers = IncludeAll(Known(args.include),
                                         [scrapers |-> <<>>, warnings |-> <<>>]).scrapers
            /\ (args.include = <<>> /\ args.exclude # <<>>) =>
                   scrapers = Without(Registry,
                                      ExcludeAll(Known(args.exclude),
                                                 [excluded |-> {}, warnings |-> <<>>]).excluded)

C13_Witness ==
    /\ pc = "done"
    /\ outcome = "success"
    /\ args.include = <<"foo", "facebook">>
    /\ warnings = <<"foo">>
    /\ scrapers = <<"Facebook Marketplace">>
    /\ searchCalls > 0

\* C26: once the searcher is constructed, every token reported in an
\* unrecognized-site warning matches no registry entry; an include-list that
\* names a source twice (the same token again, or two tokens that match the
\* same entry) selects it once and warns about neither token.
C26_WarningOnlyIfUnmatched ==
    built =>
        /\ \A i \in 1..Len(warnings) : ~Recognized(warnings[i])
        /\ \A i, j \in 1..Len(scrapers) : i # j => scrapers[i] # scrapers[j]

----------------------------------------------------------------------------
(* Dispatch properties *)

BlankTerm(q) == q \in {"", "  "}

\* C14: while a blank search term is being processed, search_all has created
\* no task and returns a mapping without listings; the number of adapter
\* searches invoked never exceeds one per active adapter and non-blank term;
\* and the wrapper _search_scraper, given a blank query, yields the empty
\* listing sequence whatever the adapter would do.
C14_BlankQueryNeverSearches ==
    /\ (pc \in {"dispatch", "collect", "raised", "post"} /\ BlankTerm(args.terms[termIdx])) =>
          /\ pc = "post"
          /\ tasks = <<>>
          /\ returned.has
          /\ \A k \in DOMAIN returned.map : returned.map[k] = <<>>
    /\ searchCalls <=
          Len(scrapers) * Cardinality({i \in 1..termIdx : ~BlankTerm(args.terms[i])})
    /\ \A q \in {"", "  "}, name \in Names(Registry), beh \in Behaviours :
          search_scraper(name, q, beh) = Ok(<<>>)

C14_Witness ==
    /\ pc = "done"
    /\ outcome = "success"
    /\ scrapers # <<>>
    /\ args.terms = <<"  ", "amp">>
    /\ searchCalls = Len(scrapers)

\* C20: while search_all creates its tasks nothing has been awaited (no time
\* has passed and no task has run, ended or been cancelled); whenever it
\* awaits, or has awaited, a task, one task per active adapter exists, in the
\* order of the active adapters, and every one of them was created at the
\* instant search_all was entered; once an await has ended, no task is still
\* waiting for its start.
C20_AllDispatchedBeforeAwait ==
    /\ pc = "dispatch" =>
          /\ clock = 0
          /\ \A k \in 1..Len(tasks) : tasks[k].st = "created"
    /\ (pc \in {"collect", "raised"} \/ (pc = "post" /\ tasks # <<>>)) =>
          /\ Len(tasks) = Len(scrapers)
          /\ \A k \in 1..Len(tasks) : tasks[k].name = scrapers[k] /\ tasks[k].at = 0
          /\ (cIdx > 1 \/ pc # "collect") => \A k \in 1..Len(tasks) : tasks[k].st # "created"

C20_Witness ==
    /\ pc = "collect"
    /\ cIdx = 2
    /\ Len(tasks) = 3
    /\ tasks[1].st = "timedout"
    /\ tasks[3].st = "running"
    /\ tasks[3].at = 0
    /\ clock = SearchTimeout

----------------------------------------------------------------------------
(* Date normalizer properties *)

Returned == call.ret # Pending

\* C18: a returned call of parse_date gave: for "2024-10-15", 15 Oct 2024 at
\* midnight; for "3 days ago", midnight of the day three days before the clock
\* reading; for "22 sep" read before 22 Sep of the current year, 22 Sep of the
\* previous year at midnight; for "not a date", None.
C18_FixedProbes ==
    (call.fn = "parse_date" /\ Returned) =>
        LET d == call.arg.date_str
            now == call.arg.now
        IN  /\ d = P_iso => call.ret = Date(Midnight(2024, 10, 15))
            /\ d = P_3_days_ago =>
                  call.ret = Date(Midnight(now.year, now.month, now.day) - 3 * HoursPerDay)
            /\ (d = P_22_sep /\ Instant(now) < Midnight(now.year, 9, 22)) =>
                  call.ret = Date(Midnight(now.year - 1, 9, 22))
            /\ d = P_not_a_date => call.ret = None

C18_Witness ==
    /\ call.fn = "parse_date"
    /\ call.arg.date_str = P_22_sep
    /\ call.arg.now = [year |-> 2025, month |-> 9, day |-> 21, hour |-> 23]
    /\ call.ret = Date(Midnight(2024, 9, 22))

\* C19: a returned call of parse_date gave 17 Oct 2025 for the documented
\* formats "Oct 17, 2025" and "17/10/2025".
C19_DocumentedFormats ==
    (call.fn = "parse_date" /\ Returned) =>
        /\ call.arg.date_str = P_Oct_17_2025 => call.ret = Date(Midnight(2025, 10, 17))
        /\ call.arg.date_str = P_17_10_2025 => call.ret = Date(Midnight(2025, 10, 17))

\* the text parse_date examines: date_str.strip()
Examined(date_str) == str_strip(date_str)

\* the families of patterns in the order of the specification, each with
\* whether it matches the text s (for an absolute family: matches and yields a
\* valid date) and the outcome it then gives at the clock reading now
NowMarkers(s, now) ==
    [matches |-> \/ Contains(str_lower(s), <<"j", "u", "s", "t", " ", "n", "o", "w">>)
                 \/ Contains(str_lower(s), <<"n", "u">>),
     result |-> Date(Instant(now))]

TodayYesterday(s, now) ==
    LET today == \/ Contains(str_lower(s), <<"i", "d", "a", "g">>)
                 \/ Contains(str_lower(s), <<"t", "o", "d", "a", "y">>)
        yesterday == Contains(str_lower(s), <<"y", "e", "s", "t", "e", "r", "d", "a", "y">>)
    IN  [matches |-> today \/ yesterday,
         result |-> IF today THEN AtMidnight(Date(Instant(now)))
                    ELSE AtMidnight(Minus(Instant(now), 1, 0))]

QuantifiedAgo(s, now) ==
    LET days == AgoSearch(s, <<"d", "a", "y">>)
        hours == AgoSearch(s, <<"h", "o", "u", "r">>)
        weeks == AgoSearch(s, <<"w", "e", "e", "k">>)
    IN  [matches |-> days # -1 \/ hours # -1 \/ weeks # -1,
         result |-> IF days # -1 THEN AtMidnight(Minus(Instant(now), days, 0))
                    ELSE IF hours # -1 THEN Minus(Instant(now), 0, hours)
                    ELSE AtMidnight(Minus(Instant(now), 7 * weeks, 0))]

IsoFamily(s, now) == [matches |-> IsoDate(s).tag = "date", result |-> IsoDate(s)]

DayMonthFamily(s, now) ==
    [matches |-> DayMonthDate(s, now).tag = "date", result |-> DayMonthDate(s, now)]

SlashFamily(s, now) == [matches |-> SlashDate(s).tag = "date", result |-> SlashDate(s)]

Families(s, now) ==
    <<NowMarkers(s, now), TodayYesterday(s, now), QuantifiedAgo(s, now),
      IsoFamily(s, now), DayMonthFamily(s, now), SlashFamily(s, now)>>

\* C21: a returned call of parse_date on a text gave the outcome of the first
\* family, in the order now-markers, today / yesterday, N days / hours / weeks
\* ago, ISO, day + month name, slash / dash, that matches the text, whatever
\* the later families would give; it gave None when no family matches.
C21_FirstFamilyWins ==
    (call.fn = "parse_date" /\ Returned /\ call.arg.date_str # NoText) =>
        LET f == Families(Examined(call.arg.date_str), call.arg.now)
            M == {i \in 1..Len(f) : f[i].matches}
        IN  /\ \A i \in M : (\A j \in M : i <= j) => call.ret = f[i].result
            /\ M = {} => call.ret = None

C21_Witness ==
    /\ call.fn = "parse_date"
    /\ call.arg.date_str = P_iso
    /\ Families(P_iso, call.arg.now)[4].matches
    /\ Families(P_iso, call.arg.now)[6].matches
    /\ Families(P_iso, call.arg.now)[4].result # Families(P_iso, call.arg.now)[6].result
    /\ call.ret = Date(Midnight(2024, 10, 15))

\* the calendar has a day d of month m in year y
ValidDate(y, m, d) ==
    /\ y \in MinYear..MaxYear
    /\ m \in 1..12
    /\ d \in 1..(IF m = 2 THEN (IF IsLeap(y) THEN 29 ELSE 28)
                 ELSE IF m \in {4, 6, 9, 11} THEN 30 ELSE 31)

\* what a pattern found in a text: whether it matched, whether the values it
\* captured name a calendar date, and midnight of that date
Found(y, m, d) ==
    [matched |-> TRUE, valid |-> ValidDate(y, m, d),
     t |-> IF ValidDate(y, m, d) THEN Midnight(y, m, d) ELSE 0]

NotFound == [matched |-> FALSE, valid |-> FALSE, t |-> 0]

IsoFound(s) ==
    LET M == {i \in 1..Len(s) : IsoMatchAt(s, i)}
        i == Leftmost(M)
    IN  IF M = {} THEN NotFound
        ELSE Found(ToInt(s, i, 4), ToInt(s, i + 5, 2), ToInt(s, i + 8, 2))

\* the number of the month a three-letter key names in Swedish or English, or 0
MonthNamed(key) ==
    IF \E m \in 1..12 : swedish_months[m] = key \/ english_months[m] = key
    THEN CHOOSE m \in 1..12 : swedish_months[m] = key \/ english_months[m] = key
    ELSE 0

\* without a year the date is looked up in the current year, and in the
\* previous year when the date of the current year is later than now
DayMonthFound(s, now) ==
    LET M == {i \in 1..Len(s) : DayMonthAt(s, i).matched}
        g == DayMonthAt(s, Leftmost(M))
        m == MonthNamed(g.key)
    IN  IF M = {} THEN NotFound
        ELSE IF g.year # -1 THEN Found(g.year, m, g.day)
        ELSE IF ValidDate(now.year, m, g.day) /\ Midnight(now.year, m, g.day) > Instant(now)
        THEN Found(now.year - 1, m, g.day)
        ELSE Found(now.year, m, g.day)

SlashFound(s) ==
    LET M == {i \in 1..Len(s) : SlashAt(s, i).matched}
        g == SlashAt(s, Leftmost(M))
    IN  IF M = {} THEN NotFound
        ELSE Found(IF g.year < 100 THEN g.year + 2000 ELSE g.year, g.month, g.day)

\* no relative family matches the text
NotRelative(s) ==
    /\ ~NowMarkers(s, Clock[1]).matches
    /\ ~TodayYesterday(s, Clock[1]).matches
    /\ ~QuantifiedAgo(s, Clock[1]).matches

\* C22: a returned call of parse_date on a text that no relative family
\* matches, and in which the ISO, the day + month-name or the slash / dash
\* pattern captured values that name no calendar date (day 32, month 13,
\* 29 Feb of a non-leap year), did not raise: it gave the date of the first
\* of these three families, in this order, whose values name a calendar date,
\* and None when there is none.
C22_InvalidValuesFallThrough ==
    (call.fn = "parse_date" /\ Returned /\ call.arg.date_str # NoText) =>
        LET s == Examined(call.arg.date_str)
            iso == IsoFound(s)
            dm == DayMonthFound(s, call.arg.now)
            sl == SlashFound(s)
        IN  (/\ NotRelative(s)
             /\ \/ iso.matched /\ ~iso.valid
                \/ dm.matched /\ ~dm.valid
                \/ sl.matched /\ ~sl.valid) =>
                /\ call.ret.tag # "exc"
                /\ call.ret = IF iso.valid THEN Date(iso.t)
                              ELSE IF dm.valid THEN Date(dm.t)
                              ELSE IF sl.valid THEN Date(sl.t)
                              ELSE None

C22_Witness ==
    /\ call.fn = "parse_date"
    /\ call.arg.date_str = P_2024_02_30_22_sep
    /\ call.arg.now = [year |-> 2025, month |-> 10, day |-> 20, hour |-> 9]
    /\ IsoFound(P_2024_02_30_22_sep).matched
    /\ ~IsoFound(P_2024_02_30_22_sep).valid
    /\ call.ret = Date(Midnight(2025, 9, 22))

\* C23: a returned call of parse_date on a text that reaches the day +
\* month-name family (no relative family matches, no valid ISO date) and in
\* which that pattern captured a day and a known month but no year, the date
\* existing in the current year: it gave that date of the current year when it
\* is not later than now (the date of today included), and the date of the
\* previous year, if the previous year has it, when it is later than now; the
\* date it gave is never later than now.
C23_YearlessNotInFuture ==
    (call.fn = "parse_date" /\ Returned /\ call.arg.date_str # NoText) =>
        LET s == Examined(call.arg.date_str)
            now == call.arg.now
            M == {i \in 1..Len(s) : DayMonthAt(s, i).matched}
            g == DayMonthAt(s, Leftmost(M))
            m == MonthNamed(g.key)
            cur == Midnight(now.year, m, g.day)
            prev == Midnight(now.year - 1, m, g.day)
        IN  (/\ NotRelative(s)
             /\ ~IsoFound(s).valid
             /\ M # {}
             /\ g.year = -1
             /\ ValidDate(now.year, m, g.day)) =>
                /\ cur <= Instant(now) => call.ret = Date(cur)
                /\ (m = now.month /\ g.day = now.day) => call.ret = Date(cur)
                /\ (cur > Instant(now) /\ ValidDate(now.year - 1, m, g.day)) =>
                       call.ret = Date(prev)
                /\ (cur <= Instant(now) \/ ValidDate(now.year - 1, m, g.day)) =>
                       (call.ret.tag = "date" /\ call.ret.t <= Instant(now))

C23_Witness ==
    /\ call.fn = "parse_date"
    /\ call.arg.date_str = P_22_sep
    /\ call.arg.now = [year |-> 2025, month |-> 9, day |-> 22, hour |-> 0]
    /\ call.ret = Date(Instant(call.arg.now))

\* C24: every returned call of parse_date, whatever the phrase (a relative
\* phrase with a very large count included), gave a point in time or None: it
\* did not raise.
C24_ParseDateTotal ==
    (call.fn = "parse_date" /\ Returned) => call.ret.tag \in {"date", "none"}

----------------------------------------------------------------------------
(* Age filter and display order properties *)

\* the dated listings of the mapping r examined before listing i of source s
DatedBefore(r, s, i) ==
    Cardinality({p \in {<<s2, i2>> : s2 \in 1..Len(r), i2 \in 1..MaxListings} :
                    /\ p[2] <= Len(r[p[1]].listings)
                    /\ ~NoDate(r[p[1]].listings[p[2]])
                    /\ (p[1] < s \/ (p[1] = s /\ p[2] < i))})

\* C16: a returned call filter_by_days(results, d) did not raise; for d <= 0 it
\* gave the input mapping itself; for d > 0 it gave a mapping with the same
\* keys in the same order in which the listings of a source are, in their
\* input order, exactly those with no date text, or whose date text
\* normalizes to None, or whose normalized date is not before the clock
\* reading of the call minus d days (hour kept, not truncated to midnight).
C16_FilterByDays ==
    (call.fn = "filter_by_days" /\ Returned) =>
        LET r == call.arg.results
            d == call.arg.days_back
            c == call.arg.clock
            Normalized(s, i) ==
                parse_date(r[s].listings[i].posted_date, Reading(c, DatedBefore(r, s, i) + 2))
            Retained(s, i) ==
                \/ NoDate(r[s].listings[i])
                \/ Normalized(s, i).tag = "none"
                \/ /\ Normalized(s, i).tag = "date"
                   /\ Normalized(s, i).t >= Instant(Reading(c, 1)) - d * HoursPerDay
        IN  /\ call.ret.tag = "ok"
            /\ d <= 0 => call.ret.value = r
            /\ d > 0 =>
                  /\ Len(call.ret.value) = Len(r)
                  /\ \A s \in 1..Len(r) :
                        /\ call.ret.value[s].name = r[s].name
                        /\ call.ret.value[s].listings =
                              SelectSeq(r[s].listings, LAMBDA l : Retained(s, l.id))

\* C17: a returned call of format_results did not raise and displayed every
\* listing of the flattening of the mapping (sources in iteration order, each
\* source in its own order) exactly once, so that of any two displayed
\* listings the earlier one is: the one with a parseable date when the other
\* has none; the newer one when both dates are parseable and differ; the one
\* earlier in the flattening otherwise.
C17_DisplayOrder ==
    (call.fn = "format_results" /\ Returned) =>
        LET r == call.arg.results
            c == call.arg.clock
            F == Flatten(r)
            Pos(x) == CHOOSE p \in 1..Len(F) : F[p] = x
            DatedUpTo(p) == Cardinality({q \in 1..p : ~NoDate(F[q])})
            Normalized(x) == parse_date(x.posted_date, Reading(c, DatedUpTo(Pos(x))))
            Parseable(x) == ~NoDate(x) /\ Normalized(x).tag = "date"
            Precedes(x, y) ==
                \/ Parseable(x) /\ ~Parseable(y)
                \/ Parseable(x) /\ Parseable(y) /\ Normalized(x).t > Normalized(y).t
                \/ /\ Parseable(x) = Parseable(y)
                   /\ Parseable(x) => Normalized(x).t = Normalized(y).t
                   /\ Pos(x) < Pos(y)
            shown == call.ret.value
        IN  /\ call.ret.tag = "ok"
            /\ Len(shown) = Len(F)
            /\ {shown[i] : i \in 1..Len(shown)} = {F[i] : i \in 1..Len(F)}
            /\ \A i, j \in 1..Len(shown) : i < j => Precedes(shown[i], shown[j])

\* C25: in the sequence a returned call of format_results displayed, any two
\* listings that carry the same date phrase (clock-relative phrases included)
\* stand in their flatten order, although the clock may advance between the
\* computations of their sort keys.
C25_SamePhraseSameKey ==
    (call.fn = "format_results" /\ Returned /\ call.ret.tag = "ok") =>
        LET F == Flatten(call.arg.results)
            shown == call.ret.value
            Shown(x) == CHOOSE p \in 1..Len(shown) : shown[p] = x
        IN  \A i, j \in 1..Len(F) :
                (i < j /\ F[i].posted_date = F[j].posted_date) => Shown(F[i]) < Shown(F[j])

====
